---- MODULE Spec2Model ----
(***************************************************************************)
(* Model of the slot calendar of src/utils.py: TimeSlot and Calendar.      *)
(*                                                                         *)
(* A datetime.datetime is the record [day, min, sec, us]: day counts       *)
(* calendar dates, min = hour * 60 + minute is the minute of the day,      *)
(* sec and us are the second and microsecond fields.  A datetime.time is   *)
(* the record [min, sec, us].  An Optional value is a sequence of length   *)
(* at most one: <<>> is None, <<v>> is the value v.  A dict is the         *)
(* sequence of its items [key, slot] in insertion order.                   *)
(*                                                                         *)
(* Spec is a constructed calendar and the calls made on it, one call a     *)
(* step.  SpecBuild is Calendar.__init__ itself, one pass of its loop      *)
(* condition or body a step (build holds its position and current_time).   *)
(* SpecRace is two callers inside book_slot at once, one source line a     *)
(* step (callers holds each caller's position and locals).                 *)
(***************************************************************************)
EXTENDS Integers, Sequences, FiniteSets, TLC

VARIABLES slots, time_increment_minutes, ctor, ret, wins, firstTitle,
          build, callers

vars == <<slots, time_increment_minutes, ctor, ret, wins, firstTitle,
          build, callers>>

\* ------------------------------------------------------------------ bounds
\* Calendars of at most MaxSlots slots are built.
MaxSlots == 6
\* Calls probe the dates -1 .. MaxDay + 1; the calendars lie in the dates 0..1.
MaxDay == 1
\* datetime.min, the earliest datetime there is, lies DaysToMin days before
\* date 0 (it is 0001-01-01 00:00 in Python).
DaysToMin == 1

\* ------------------------------------------------------- datetime arithmetic
MinutesPerDay == 24 * 60

None == <<>>
Some(v) == <<v>>

DT(d, m, s, u) == [day |-> d, min |-> m, sec |-> s, us |-> u]
TimeOfDay(m, s, u) == [min |-> m, sec |-> s, us |-> u]

\* datetime.time(): the time-of-day of a datetime, its date dropped
time(dt) == [min |-> dt.min, sec |-> dt.sec, us |-> dt.us]

\* datetime.date()
date(dt) == dt.day

\* time-of-day comparison a < b (datetime.time.__lt__)
TimeLt(a, b) ==
    \/ a.min < b.min
    \/ a.min = b.min /\ a.sec < b.sec
    \/ a.min = b.min /\ a.sec = b.sec /\ a.us < b.us

TimeLe(a, b) == ~TimeLt(b, a)

\* datetime comparison a < b (datetime.datetime.__lt__)
DtLt(a, b) ==
    \/ a.day < b.day
    \/ a.day = b.day /\ TimeLt(time(a), time(b))

DtLe(a, b) == ~DtLt(b, a)

\* datetime + timedelta(minutes = m), m any integer
AddMinutes(dt, m) ==
    LET total == dt.day * MinutesPerDay + dt.min + m
    IN  [day |-> total \div MinutesPerDay, min |-> total % MinutesPerDay,
         sec |-> dt.sec, us |-> dt.us]

\* Python's a % b: the result has the sign of b; b = 0 raises
\* ZeroDivisionError (see Raises), and no value is used then
PyMod(a, b) ==
    IF b > 0 THEN a % b
    ELSE IF b < 0 THEN 0 - ((0 - a) % (0 - b))
    ELSE 0

\* total_minutes % self.time_increment_minutes raises ZeroDivisionError
Raises(inc) == inc = 0

\* ------------------------------------------------------------------ TimeSlot
\* TimeSlot.is_during_workday
is_during_workday(slot, work_start, work_end) ==
    LET slot_start_time == time(slot.start_time)
        slot_end_time == time(slot.end_time)
        starts_after_begin == TimeLe(work_start, slot_start_time)
        ends_before_finish == TimeLe(slot_end_time, work_end)
    IN  starts_after_begin /\ ends_before_finish

\* TimeSlot(start_time, end_time, work_start, work_end): the dataclass
\* defaults, then __post_init__
TimeSlot(start_time, end_time, work_start, work_end) ==
    LET fresh == [start_time |-> start_time, end_time |-> end_time,
                  status |-> "available", title |-> None,
                  description |-> None, people_involved |-> <<>>]
    IN  IF work_start # None /\ work_end # None
           /\ ~is_during_workday(fresh, work_start[1], work_end[1])
        THEN [fresh EXCEPT !.status = "busy"]
        ELSE fresh

\* ---------------------------------------------------------------- Calendar
\* d[key] = slot on a dict: an existing key keeps its position
DictSet(d, key, slot) ==
    IF \E i \in 1..Len(d) : d[i].key = key
    THEN [i \in 1..Len(d) |->
            IF d[i].key = key THEN [key |-> key, slot |-> slot] ELSE d[i]]
    ELSE Append(d, [key |-> key, slot |-> slot])

\* d.get(key)
DictGet(d, key) ==
    IF \E i \in 1..Len(d) : d[i].key = key
    THEN Some(d[CHOOSE i \in 1..Len(d) : d[i].key = key].slot)
    ELSE None

\* GenSlots with the loop condition current_time <= end_date
RECURSIVE GenSlots_Inclusive(_, _, _, _, _, _)
GenSlots_Inclusive(d, current_time, end_date, work_start, work_end, n) ==
    IF DtLe(current_time, end_date)
    THEN LET end_time == AddMinutes(current_time, n)
             slot == TimeSlot(current_time, end_time, work_start, work_end)
         IN  GenSlots_Inclusive(DictSet(d, current_time, slot), end_time,
                                end_date, work_start, work_end, n)
    ELSE d

\* GenSlots cutting a slot that would pass end_date off at end_date
RECURSIVE GenSlots_Truncating(_, _, _, _, _, _)
GenSlots_Truncating(d, current_time, end_date, work_start, work_end, n) ==
    IF DtLt(current_time, end_date)
    THEN LET next_time == AddMinutes(current_time, n)
             end_time == IF DtLt(end_date, next_time) THEN end_date
                         ELSE next_time
             slot == TimeSlot(current_time, end_time, work_start, work_end)
         IN  GenSlots_Truncating(DictSet(d, current_time, slot), end_time,
                                 end_date, work_start, work_end, n)
    ELSE d

\* the loop of GenSlots_DoWhile after its first pass
RECURSIVE GenSlots_Rest(_, _, _, _, _, _)
GenSlots_Rest(d, current_time, end_date, work_start, work_end, n) ==
    IF DtLt(current_time, end_date)
    THEN LET end_time == AddMinutes(current_time, n)
             slot == TimeSlot(current_time, end_time, work_start, work_end)
         IN  GenSlots_Rest(DictSet(d, current_time, slot), end_time, end_date,
                           work_start, work_end, n)
    ELSE d

\* GenSlots testing its loop condition after the body: one slot at least
GenSlots_DoWhile(d, current_time, end_date, work_start, work_end, n) ==
    LET end_time == AddMinutes(current_time, n)
        slot == TimeSlot(current_time, end_time, work_start, work_end)
    IN  GenSlots_Rest(DictSet(d, current_time, slot), end_time, end_date,
                      work_start, work_end, n)

\* the slot-generation loop of Calendar.__init__, from current_time on
RECURSIVE GenSlots(_, _, _, _, _, _)
GenSlots(d, current_time, end_date, work_start, work_end, inc) ==
    IF DtLt(current_time, end_date)
    THEN LET end_time == AddMinutes(current_time, inc)
             slot == TimeSlot(current_time, end_time, work_start, work_end)
         IN  GenSlots(DictSet(d, current_time, slot), end_time, end_date,
                      work_start, work_end, inc)
    ELSE d

\* Calendar.__init__: self.slots
NewCalendar(start_date, end_date, work_start, work_end, inc) ==
    GenSlots(<<>>, start_date, end_date, work_start, work_end, inc)

\* round_to_nearest_slot rounding to the nearest boundary, up from the half
round_to_nearest_slot_HalfUp(n, time_to_round) ==
    LET total_minutes == time_to_round.min
        remainder_minutes == PyMod(total_minutes, n)
        rounded_time ==
            IF 2 * remainder_minutes >= n /\ remainder_minutes # 0
            THEN AddMinutes(time_to_round, n - remainder_minutes)
            ELSE AddMinutes(time_to_round, 0 - remainder_minutes)
    IN  [rounded_time EXCEPT !.sec = 0, !.us = 0]

\* Calendar.round_to_nearest_slot
round_to_nearest_slot(inc, time_to_round) ==
    LET total_minutes == time_to_round.min
        remainder_minutes == PyMod(total_minutes, inc)
        rounded_time == AddMinutes(time_to_round, 0 - remainder_minutes)
    IN  [rounded_time EXCEPT !.sec = 0, !.us = 0]

\* get_slot_at looking up the requested time itself, unrounded
get_slot_at_Exact(d, n, requested_time) == DictGet(d, requested_time)

\* get_slot_at returning the slot whose interval holds the requested time
get_slot_at_Containing(d, n, requested_time) ==
    LET holds(i) == /\ DtLe(d[i].slot.start_time, requested_time)
                    /\ DtLt(requested_time, d[i].slot.end_time)
    IN  IF \E i \in 1..Len(d) : holds(i)
        THEN Some(d[CHOOSE i \in 1..Len(d) : holds(i)].slot)
        ELSE None

\* Calendar.get_slot_at
get_slot_at(d, inc, requested_time) ==
    LET rounded_key == round_to_nearest_slot(inc, requested_time)
    IN  DictGet(d, rounded_key)

\* DayLoop leaving the loop at the first slot that is not of the day
RECURSIVE DayLoop_BreakOnMiss(_, _, _, _)
DayLoop_BreakOnMiss(d, day, i, daily_slots) ==
    IF i > Len(d) THEN daily_slots
    ELSE IF date(d[i].key) = day
         THEN DayLoop_BreakOnMiss(d, day, i + 1, Append(daily_slots, d[i].slot))
         ELSE daily_slots

\* the loop of Calendar.get_slots_for_day, from item i on
RECURSIVE DayLoop(_, _, _, _)
DayLoop(d, day, i, daily_slots) ==
    IF i > Len(d) THEN daily_slots
    ELSE IF date(d[i].key) = day
         THEN DayLoop(d, day, i + 1, Append(daily_slots, d[i].slot))
         ELSE IF date(d[i].key) > day
              THEN daily_slots
              ELSE DayLoop(d, day, i + 1, daily_slots)

\* Calendar.get_slots_for_day
get_slots_for_day(d, day) == DayLoop(d, day, 1, <<>>)

\* book_slot without the status check
book_slot_NoStatusCheck(d, n, time_to_book, title) ==
    LET slot == get_slot_at(d, n, time_to_book)
        key == round_to_nearest_slot(n, time_to_book)
    IN  IF slot # None
        THEN [slots |-> DictSet(d, key, [slot[1] EXCEPT !.status = "busy",
                                                        !.title = Some(title)]),
              result |-> TRUE, raised |-> Raises(n)]
        ELSE [slots |-> d, result |-> FALSE, raised |-> Raises(n)]

\* book_slot that sets the title and leaves the status as it was
book_slot_StatusNotSet(d, n, time_to_book, title) ==
    LET slot == get_slot_at(d, n, time_to_book)
        key == round_to_nearest_slot(n, time_to_book)
    IN  IF slot # None /\ slot[1].status = "available"
        THEN [slots |-> DictSet(d, key, [slot[1] EXCEPT !.title = Some(title)]),
              result |-> TRUE, raised |-> Raises(n)]
        ELSE [slots |-> d, result |-> FALSE, raised |-> Raises(n)]

\* book_slot that writes the title before it checks the status
book_slot_TitleFirst(d, n, time_to_book, title) ==
    LET slot == get_slot_at(d, n, time_to_book)
        key == round_to_nearest_slot(n, time_to_book)
    IN  IF slot # None /\ slot[1].status = "available"
        THEN [slots |-> DictSet(d, key, [slot[1] EXCEPT !.status = "busy",
                                                        !.title = Some(title)]),
              result |-> TRUE, raised |-> Raises(n)]
        ELSE IF slot # None
             THEN [slots |-> DictSet(d, key,
                                     [slot[1] EXCEPT !.title = Some(title)]),
                   result |-> FALSE, raised |-> Raises(n)]
             ELSE [slots |-> d, result |-> FALSE, raised |-> Raises(n)]

\* book_slot that frees a busy slot it is called on
book_slot_Toggle(d, n, time_to_book, title) ==
    LET slot == get_slot_at(d, n, time_to_book)
        key == round_to_nearest_slot(n, time_to_book)
    IN  IF slot # None /\ slot[1].status = "available"
        THEN [slots |-> DictSet(d, key, [slot[1] EXCEPT !.status = "busy",
                                                        !.title = Some(title)]),
              result |-> TRUE, raised |-> Raises(n)]
        ELSE IF slot # None
             THEN [slots |-> DictSet(d, key,
                                     [slot[1] EXCEPT !.status = "available"]),
                   result |-> FALSE, raised |-> Raises(n)]
             ELSE [slots |-> d, result |-> FALSE, raised |-> Raises(n)]

\* book_slot that also stores the title as the description
book_slot_SetsDescription(d, n, time_to_book, title) ==
    LET slot == get_slot_at(d, n, time_to_book)
        key == round_to_nearest_slot(n, time_to_book)
    IN  IF slot # None /\ slot[1].status = "available"
        THEN [slots |-> DictSet(d, key, [slot[1] EXCEPT !.status = "busy",
                                                        !.title = Some(title),
                                                        !.description = Some(title)]),
              result |-> TRUE, raised |-> Raises(n)]
        ELSE [slots |-> d, result |-> FALSE, raised |-> Raises(n)]

\* book_slot that takes a busy slot without a title for a free one
book_slot_BooksUntitled(d, n, time_to_book, title) ==
    LET slot == get_slot_at(d, n, time_to_book)
        key == round_to_nearest_slot(n, time_to_book)
    IN  IF slot # None /\ (slot[1].status = "available" \/ slot[1].title = None)
        THEN [slots |-> DictSet(d, key, [slot[1] EXCEPT !.status = "busy",
                                                        !.title = Some(title)]),
              result |-> TRUE, raised |-> Raises(n)]
        ELSE [slots |-> d, result |-> FALSE, raised |-> Raises(n)]

\* Calendar.book_slot: the dict afterwards and the value returned
book_slot(d, inc, time_to_book, title) ==
    LET slot == get_slot_at(d, inc, time_to_book)
        key == round_to_nearest_slot(inc, time_to_book)
    IN  IF slot # None /\ slot[1].status = "available"
        THEN [slots |-> DictSet(d, key, [slot[1] EXCEPT !.status = "busy",
                                                        !.title = Some(title)]),
              result |-> TRUE, raised |-> Raises(inc)]
        ELSE [slots |-> d, result |-> FALSE, raised |-> Raises(inc)]

\* ------------------------------------------------------------------ inputs
\* start_date and end_date of the calendars built
CalTimes ==
    { DT(0, 0, 0, 0), DT(0, 10, 0, 0), DT(0, 70, 0, 0), DT(0, 510, 0, 0),
      DT(0, 570, 0, 0), DT(0, 1380, 0, 0), DT(1, 30, 0, 0),
      DT(1, 780, 30, 0) }

Increments == {30, 420}

\* (work_start, work_end): none, 09:00-17:00, 00:00-09:00, 17:00-09:00,
\* and a window with only its start given
Windows ==
    { <<None, None>>,
      <<Some(TimeOfDay(540, 0, 0)), Some(TimeOfDay(1020, 0, 0))>>,
      <<Some(TimeOfDay(0, 0, 0)), Some(TimeOfDay(540, 0, 0))>>,
      <<Some(TimeOfDay(1020, 0, 0)), Some(TimeOfDay(540, 0, 0))>>,
      <<Some(TimeOfDay(540, 0, 0)), None>> }

Titles == {"standup", "x"}

\* timestamps the calls are made with
ProbeTimes ==
    { DT(d, m, 0, 0) : d \in 0..MaxDay, m \in {0, 420, 1410} }
    \cup { DT(0, 5, 30, 500000), DT(0, 10, 0, 0), DT(0, 30, 0, 1),
           DT(0, 525, 0, 0), DT(0, 540, 0, 0), DT(0, 1405, 59, 0),
           DT(1, 240, 0, 0), DT(-1, 1410, 0, 0), DT(MaxDay + 1, 0, 0, 0) }

ProbeDays == -1 .. MaxDay + 1

\* the number of slots the loop of Calendar.__init__ generates
RECURSIVE LoopCount(_, _, _)
LoopCount(current_time, end_date, inc) ==
    IF DtLt(current_time, end_date)
    THEN 1 + LoopCount(AddMinutes(current_time, inc), end_date, inc)
    ELSE 0

\* the keys of a dict
Keys(d) == { d[i].key : i \in 1..Len(d) }

\* ----------------------------------------------------------- state machine
Init ==
    \E start_date \in CalTimes, end_date \in CalTimes,
       inc \in Increments, w \in Windows :
        /\ LoopCount(start_date, end_date, inc) <= MaxSlots
        /\ slots = NewCalendar(start_date, end_date, w[1], w[2], inc)
        /\ time_increment_minutes = inc
        /\ ctor = [start_date |-> start_date, end_date |-> end_date,
                   work_start |-> w[1], work_end |-> w[2]]
        /\ ret = [op |-> "init"]
        /\ wins = [k \in Keys(slots) |-> 0]
        /\ firstTitle = [k \in Keys(slots) |-> None]
        /\ build = [pc |-> "done"]
        /\ callers = [mode |-> "single"]

RoundToNearestSlot ==
    \E t \in ProbeTimes :
        /\ ret' = [op |-> "round_to_nearest_slot", t |-> t,
                   result |-> round_to_nearest_slot(time_increment_minutes, t),
                   raised |-> Raises(time_increment_minutes)]
        /\ UNCHANGED <<slots, time_increment_minutes, ctor, wins, firstTitle,
                       build, callers>>

GetSlotAt ==
    \E t \in ProbeTimes :
        /\ ret' = [op |-> "get_slot_at", t |-> t,
                   result |-> get_slot_at(slots, time_increment_minutes, t),
                   raised |-> Raises(time_increment_minutes)]
        /\ UNCHANGED <<slots, time_increment_minutes, ctor, wins, firstTitle,
                       build, callers>>

GetSlotsForDay ==
    \E day \in ProbeDays :
        /\ ret' = [op |-> "get_slots_for_day", day |-> day,
                   result |-> get_slots_for_day(slots, day), raised |-> FALSE]
        /\ UNCHANGED <<slots, time_increment_minutes, ctor, wins, firstTitle,
                       build, callers>>

BookSlot ==
    \E t \in ProbeTimes, title \in Titles :
        LET r == book_slot(slots, time_increment_minutes, t, title)
            key == round_to_nearest_slot(time_increment_minutes, t)
        IN  /\ slots' = r.slots
            /\ ret' = [op |-> "book_slot", t |-> t, title |-> title,
                       result |-> r.result, raised |-> r.raised]
            /\ wins' = IF r.result /\ key \in DOMAIN wins
                       THEN [wins EXCEPT ![key] = @ + 1] ELSE wins
            /\ firstTitle' = IF r.result /\ key \in DOMAIN wins /\ wins[key] = 0
                             THEN [firstTitle EXCEPT ![key] = Some(title)]
                             ELSE firstTitle
            /\ UNCHANGED <<time_increment_minutes, ctor, build, callers>>

Next ==
    \/ RoundToNearestSlot
    \/ GetSlotAt
    \/ GetSlotsForDay
    \/ BookSlot

Spec == Init /\ [][Next]_vars

\* ------------------------------------------------- construction, stepwise
\* datetime.min
MinDate == DT(0 - DaysToMin, 0, 0, 0)

BuildTimes == { DT(0, 0, 0, 0), DT(0, 10, 0, 0), DT(0, 70, 0, 0),
                DT(0, 1380, 0, 0), DT(1, 30, 0, 0) }

\* time_increment_minutes: any int; zero, negative and positive ones are tried
BuildIncrements == <<0, -30, -420, 30, 420>>

BuildWindows ==
    { <<None, None>>,
      <<Some(TimeOfDay(540, 0, 0)), Some(TimeOfDay(1020, 0, 0))>> }

\* Calendar(start_date, end_date, work_start, work_end, increment) is entered
InitBuild ==
    \E n \in DOMAIN BuildIncrements, start_date \in BuildTimes,
       end_date \in BuildTimes, w \in BuildWindows :
        /\ slots = <<>>
        /\ time_increment_minutes = BuildIncrements[n]
        /\ ctor = [start_date |-> start_date, end_date |-> end_date,
                   work_start |-> w[1], work_end |-> w[2]]
        /\ build = [pc |-> "while", current_time |-> start_date]
        /\ ret = [op |-> "init"]
        /\ wins = <<>>
        /\ firstTitle = <<>>
        /\ callers = [mode |-> "single"]

\* while current_time < end_date
LoopTest ==
    /\ build.pc = "while"
    /\ build' = [build EXCEPT !.pc =
                   IF DtLt(build.current_time, ctor.end_date)
                   THEN "body" ELSE "done"]
    /\ UNCHANGED <<slots, time_increment_minutes, ctor, ret, wins,
                   firstTitle, callers>>

\* the loop body; current_time + self.time_delta raises OverflowError when
\* the sum is before datetime.min
LoopBody ==
    /\ build.pc = "body"
    /\ LET end_time == AddMinutes(build.current_time, time_increment_minutes)
           slot == TimeSlot(build.current_time, end_time,
                            ctor.work_start, ctor.work_end)
       IN  IF DtLt(end_time, MinDate)
           THEN /\ build' = [build EXCEPT !.pc = "raised"]
                /\ slots' = slots
           ELSE /\ slots' = DictSet(slots, build.current_time, slot)
                /\ build' = [pc |-> "while", current_time |-> end_time]
    /\ UNCHANGED <<time_increment_minutes, ctor, ret, wins, firstTitle,
                   callers>>

NextBuild ==
    \/ LoopTest
    \/ LoopBody

\* the constructor is synchronous code: it keeps running while it can
SpecBuild == InitBuild /\ [][NextBuild]_vars /\ WF_vars(NextBuild)

\* ------------------------------------------- book_slot, one line a step
\* slot.status = 'busy' on the slot stored under key
write_status(d, key) ==
    DictSet(d, key, [DictGet(d, key)[1] EXCEPT !.status = "busy"])

\* write_title keeping a title that is already there
write_title_IfUnset(d, key, title) ==
    IF DictGet(d, key)[1].title = None
    THEN DictSet(d, key, [DictGet(d, key)[1] EXCEPT !.title = Some(title)])
    ELSE d

\* slot.title = title on the slot stored under key
write_title(d, key, title) ==
    DictSet(d, key, [DictGet(d, key)[1] EXCEPT !.title = Some(title)])

Callers == {1, 2}

RaceTimes == { DT(0, 0, 0, 0), DT(0, 5, 30, 500000), DT(0, 30, 0, 1),
               DT(1, 240, 0, 0) }

Idle == [pc |-> "idle", t |-> None, title |-> None, key |-> None,
         result |-> None]

\* a calendar over 00:00-01:10 and two callers about to call book_slot on it;
\* mode "atomic": a call is one step; mode "split": a line is one step
InitRace ==
    \E inc \in Increments, w \in Windows, mode \in {"atomic", "split"} :
        /\ slots = NewCalendar(DT(0, 0, 0, 0), DT(0, 70, 0, 0), w[1], w[2], inc)
        /\ time_increment_minutes = inc
        /\ ctor = [start_date |-> DT(0, 0, 0, 0), end_date |-> DT(0, 70, 0, 0),
                   work_start |-> w[1], work_end |-> w[2]]
        /\ ret = [op |-> "init"]
        /\ wins = [k \in Keys(slots) |-> 0]
        /\ firstTitle = [k \in Keys(slots) |-> None]
        /\ build = [pc |-> "done"]
        /\ callers = [mode |-> mode,
                      writer |-> [k \in Keys(slots) |-> 0],
                      st |-> [c \in Callers |-> Idle]]

\* slot = self.get_slot_at(time_to_book): the caller holds the slot found
Call ==
    \E c \in Callers, t \in RaceTimes, title \in Titles :
        /\ callers.mode = "split"
        /\ callers.st[c].pc = "idle"
        /\ LET slot == get_slot_at(slots, time_increment_minutes, t)
               key == round_to_nearest_slot(time_increment_minutes, t)
           IN  callers' = [callers EXCEPT !.st[c] =
                 [pc |-> "check", t |-> Some(t), title |-> Some(title),
                  key |-> IF slot # None THEN Some(key) ELSE None,
                  result |-> None]]
        /\ UNCHANGED <<slots, time_increment_minutes, ctor, ret, wins,
                       firstTitle, build>>

\* if slot and slot.status == 'available': ... else return False
Check ==
    \E c \in Callers :
        /\ callers.st[c].pc = "check"
        /\ LET me == callers.st[c]
           IN  IF me.key # None
                  /\ DictGet(slots, me.key[1])[1].status = "available"
               THEN callers' = [callers EXCEPT !.st[c].pc = "status"]
               ELSE callers' = [callers EXCEPT !.st[c].pc = "done",
                                               !.st[c].result = Some(FALSE)]
        /\ UNCHANGED <<slots, time_increment_minutes, ctor, ret, wins,
                       firstTitle, build>>

\* slot.status = 'busy'
SetStatus ==
    \E c \in Callers :
        /\ callers.st[c].pc = "status"
        /\ slots' = write_status(slots, callers.st[c].key[1])
        /\ callers' = [callers EXCEPT !.st[c].pc = "title"]
        /\ UNCHANGED <<time_increment_minutes, ctor, ret, wins, firstTitle,
                       build>>

\* slot.title = title; return True
SetTitle ==
    \E c \in Callers :
        /\ callers.st[c].pc = "title"
        /\ LET me == callers.st[c]
           IN  /\ slots' = write_title(slots, me.key[1], me.title[1])
               /\ callers' = [callers EXCEPT !.st[c].pc = "done",
                                             !.st[c].result = Some(TRUE),
                                             !.writer[me.key[1]] = c]
               /\ wins' = [wins EXCEPT ![me.key[1]] = @ + 1]
        /\ UNCHANGED <<time_increment_minutes, ctor, ret, firstTitle, build>>

\* book_slot as one step
AtomicBook ==
    \E c \in Callers, t \in RaceTimes, title \in Titles :
        /\ callers.mode = "atomic"
        /\ callers.st[c].pc = "idle"
        /\ LET r == book_slot(slots, time_increment_minutes, t, title)
               key == round_to_nearest_slot(time_increment_minutes, t)
           IN  /\ slots' = r.slots
               /\ callers' = [callers EXCEPT
                     !.st[c] = [pc |-> "done", t |-> Some(t),
                                title |-> Some(title),
                                key |-> IF key \in DOMAIN wins THEN Some(key)
                                        ELSE None,
                                result |-> Some(r.result)],
                     !.writer = IF r.result THEN [@ EXCEPT ![key] = c] ELSE @]
               /\ wins' = IF r.result THEN [wins EXCEPT ![key] = @ + 1]
                          ELSE wins
        /\ UNCHANGED <<time_increment_minutes, ctor, ret, firstTitle, build>>

NextRace ==
    \/ Call
    \/ Check
    \/ SetStatus
    \/ SetTitle
    \/ AtomicBook

SpecRace == InitRace /\ [][NextRace]_vars

\* ------------------------------------------------------------------ claims
Entries == 1 .. Len(slots)

\* the key a call with timestamp t resolves to
KeyOf(t) == round_to_nearest_slot(time_increment_minutes, t)

\* C1: a book_slot call returns True exactly when, before the call, a slot is
\* stored under the rounded timestamp and is available; after a True return
\* that slot is busy and carries the given title.
C1_BookSlotContract ==
    [][ret'.op = "book_slot" =>
        LET key == KeyOf(ret'.t)
            pre == DictGet(slots, key)
            post == DictGet(slots', key)
        IN  /\ ret'.result <=> (pre # None /\ pre[1].status = "available")
            /\ ret'.result => /\ post # None
                              /\ post[1].status = "busy"
                              /\ post[1].title = Some(ret'.title)]_vars

\* a call with an unaligned timestamp has booked the slot it rounds to
C1_Witness ==
    /\ ret.op = "book_slot"
    /\ ret.result
    /\ KeyOf(ret.t) # ret.t
    /\ DictGet(slots, KeyOf(ret.t))[1].title = Some(ret.title)

\* C2: for each slot at most one book_slot call returns True; every later
\* call that resolves to the slot returns False and the slot keeps the title
\* of the first successful call.
C2_AtMostOneBooking ==
    [][ret'.op = "book_slot" /\ KeyOf(ret'.t) \in DOMAIN wins =>
        LET key == KeyOf(ret'.t)
        IN  /\ wins'[key] <= 1
            /\ wins[key] >= 1 =>
                 /\ ~ret'.result
                 /\ DictGet(slots', key)[1].title = firstTitle[key]]_vars

\* a second call on a booked slot, with another title, has returned False
C2_Witness ==
    /\ ret.op = "book_slot"
    /\ ~ret.result
    /\ KeyOf(ret.t) \in DOMAIN wins
    /\ wins[KeyOf(ret.t)] = 1
    /\ firstTitle[KeyOf(ret.t)] # Some(ret.title)

C4_BusyIsStable ==
    [][\A i \in Entries :
         slots[i].slot.status = "busy" =>
           /\ i <= Len(slots')
           /\ slots'[i].key = slots[i].key
           /\ slots'[i].slot.status = "busy"]_vars

\* a slot was booked, and a later call on it has left it busy
C4_Witness ==
    /\ ret.op = "book_slot"
    /\ ~ret.result
    /\ \E i \in Entries :
         /\ slots[i].key = KeyOf(ret.t)
         /\ wins[slots[i].key] = 1
         /\ slots[i].slot.status = "busy"
    /\ \E j \in Entries : slots[j].slot.status = "available"

\* the slot lies completely within [work_start, work_end] on its own date
WithinWindow(s, work_start, work_end) ==
    /\ TimeLe(work_start, time(s.start_time))
    /\ date(s.end_time) = date(s.start_time)
    /\ TimeLe(time(s.end_time), work_end)

WindowGiven == ctor.work_start # None /\ ctor.work_end # None

\* C5: right after construction with a working-hours window, a slot is
\* available if it lies completely within the window on its own date and is
\* busy with no title otherwise (the slot ending at midnight included);
\* without a window every slot is available.
C5_WorkdayClassification ==
    ret.op = "init" =>
      \A i \in Entries :
        LET s == slots[i].slot
        IN  IF WindowGiven
               /\ ~WithinWindow(s, ctor.work_start[1], ctor.work_end[1])
            THEN s.status = "busy" /\ s.title = None
            ELSE s.status = "available"

\* C6: with work_start > work_end every slot is busy after construction.
C6_InvertedWindowAllBusy ==
    ret.op = "init" /\ WindowGiven
      /\ TimeLt(ctor.work_end[1], ctor.work_start[1]) =>
        \A i \in Entries : slots[i].slot.status = "busy"

\* C7: round_to_nearest_slot never rounds up, is idempotent, zeroes the
\* seconds and microseconds and stays on the date of its argument.
C7_RoundIsFloorIdempotent ==
    ret.op = "round_to_nearest_slot" =>
      /\ DtLe(ret.result, ret.t)
      /\ round_to_nearest_slot(time_increment_minutes, ret.result) = ret.result
      /\ ret.result.sec = 0
      /\ ret.result.us = 0
      /\ date(ret.result) = date(ret.t)

\* a timestamp with seconds, late in its slot, was rounded down
C7_Witness ==
    /\ ret.op = "round_to_nearest_slot"
    /\ ret.t.sec # 0
    /\ ret.result.min < ret.t.min
    /\ 2 * (ret.t.min - ret.result.min) >= time_increment_minutes

InRange(t) == DtLe(ctor.start_date, t) /\ DtLt(t, ctor.end_date)

\* C8: for t within [start_date, end_date), looking up the rounded timestamp
\* gives what looking up t gives.
C8_LookupOfRounded ==
    ret.op = "get_slot_at" /\ InRange(ret.t) =>
      get_slot_at(slots, time_increment_minutes, KeyOf(ret.t)) = ret.result

\* an unaligned timestamp within the range was looked up and a slot found
C8_Witness ==
    /\ ret.op = "get_slot_at"
    /\ InRange(ret.t)
    /\ KeyOf(ret.t) # ret.t
    /\ ret.result # None

\* ceil((end_date - start_date) / n) for start_date < end_date, n > 0
CeilCount(start_date, end_date, n) ==
    LET dm == (end_date.day - start_date.day) * MinutesPerDay
              + end_date.min - start_date.min
        sub == IF TimeLt([min |-> 0, sec |-> end_date.sec, us |-> end_date.us],
                         [min |-> 0, sec |-> start_date.sec, us |-> start_date.us])
               THEN -1
               ELSE IF end_date.sec = start_date.sec /\ end_date.us = start_date.us
                    THEN 0 ELSE 1
        whole == IF sub = -1 THEN dm - 1 ELSE dm
        frac == sub # 0
    IN  whole \div n + (IF whole % n # 0 \/ frac THEN 1 ELSE 0)

\* minutes from datetime a to datetime b, for equal seconds and microseconds
MinutesBetween(a, b) == (b.day - a.day) * MinutesPerDay + b.min - a.min

\* C9: construction over start_date < end_date generates
\* ceil((end_date - start_date) / increment) slots under distinct keys, the
\* first at start_date, each stored under its start_time, each one increment
\* long, each ending where the next starts.
C9_SlotsPartitionRange ==
    ret.op = "init" /\ DtLt(ctor.start_date, ctor.end_date) =>
      /\ Len(slots) = CeilCount(ctor.start_date, ctor.end_date,
                                time_increment_minutes)
      /\ Cardinality(Keys(slots)) = Len(slots)
      /\ slots[1].slot.start_time = ctor.start_date
      /\ \A i \in Entries :
           LET s == slots[i].slot
           IN  /\ slots[i].key = s.start_time
               /\ MinutesBetween(s.start_time, s.end_time) = time_increment_minutes
               /\ s.end_time.sec = s.start_time.sec
               /\ s.end_time.us = s.start_time.us
      /\ \A i \in 1 .. Len(slots) - 1 :
           slots[i].slot.end_time = slots[i + 1].slot.start_time

\* a range the increment does not divide, crossing midnight, was generated
C9_Witness ==
    /\ ret.op = "init"
    /\ Len(slots) >= 3
    /\ date(ctor.start_date) < date(ctor.end_date)
    /\ MinutesBetween(ctor.start_date, ctor.end_date) % time_increment_minutes # 0

\* the slots that start on the date day, in the order of the calendar
StartingOn(day) ==
    LET on == SelectSeq(slots, LAMBDA e : date(e.slot.start_time) = day)
    IN  [i \in 1 .. Len(on) |-> on[i].slot]

\* C10: get_slots_for_day(d) returns exactly the slots that start on d, each
\* once, in ascending start_time order, and the empty list when none does,
\* whatever was booked before.
C10_SlotsForDay ==
    ret.op = "get_slots_for_day" =>
      /\ ret.result = StartingOn(ret.day)
      /\ \A i, j \in 1 .. Len(ret.result) :
           i < j => DtLt(ret.result[i].start_time, ret.result[j].start_time)

\* the second date of a calendar was listed after a booking: slots of the
\* first date were skipped, two slots returned
C10_Witness ==
    /\ ret.op = "get_slots_for_day"
    /\ Len(ret.result) >= 2
    /\ \E i \in Entries : date(slots[i].key) < ret.day
    /\ \E i \in Entries : wins[slots[i].key] = 1

\* end_date - start_date is a whole number of increments
ExactMultiple ==
    /\ ctor.end_date.sec = ctor.start_date.sec
    /\ ctor.end_date.us = ctor.start_date.us
    /\ MinutesBetween(ctor.start_date, ctor.end_date)
         % time_increment_minutes = 0

\* C11: every slot starts in [start_date, end_date); the last slot ends at
\* end_date when the range is a whole number of increments, and otherwise
\* after end_date by less than one increment.
C11_LastSlotOverruns ==
    ret.op = "init" /\ Len(slots) > 0 =>
      /\ \A i \in Entries :
           /\ DtLe(ctor.start_date, slots[i].slot.start_time)
           /\ DtLt(slots[i].slot.start_time, ctor.end_date)
      /\ LET last == slots[Len(slots)].slot.end_time
         IN  IF ExactMultiple
             THEN last = ctor.end_date
             ELSE /\ DtLt(ctor.end_date, last)
                  /\ DtLt(last, AddMinutes(ctor.end_date, time_increment_minutes))

\* a range that is no whole number of increments was generated
C11_Witness ==
    /\ ret.op = "init"
    /\ Len(slots) >= 2
    /\ ~ExactMultiple
    /\ DtLt(ctor.end_date, slots[Len(slots)].slot.end_time)

GeneratedKeys ==
    IF DtLt(ctor.start_date, ctor.end_date)
    THEN { AddMinutes(ctor.start_date, k * time_increment_minutes) :
             k \in 0 .. CeilCount(ctor.start_date, ctor.end_date,
                                  time_increment_minutes) - 1 }
    ELSE {}

\* C13: get_slot_at(t) returns a slot exactly when the rounded t is a
\* generated key, and that slot starts at the rounded t; it returns None,
\* without raising, when the rounded t is before start_date, at or after
\* end_date, or no generated key.
C13_LookupAbsence ==
    ret.op = "get_slot_at" =>
      LET r == KeyOf(ret.t)
      IN  /\ ~ret.raised
          /\ ret.result # None <=> r \in GeneratedKeys
          /\ ret.result # None => ret.result[1].start_time = r
          /\ DtLt(r, ctor.start_date) \/ DtLe(ctor.end_date, r) =>
               ret.result = None

\* a timestamp inside the range rounded to no generated key: None returned
C13_Witness ==
    /\ ret.op = "get_slot_at"
    /\ InRange(ret.t)
    /\ InRange(KeyOf(ret.t))
    /\ ret.result = None

\* C14: for every t with start_date <= t < end_date, get_slot_at(t) returns
\* the slot with start_time <= t < end_time.
C14_LookupFindsContainingSlot ==
    ret.op = "get_slot_at" /\ InRange(ret.t) =>
      /\ ret.result # None
      /\ DtLe(ret.result[1].start_time, ret.t)
      /\ DtLt(ret.t, ret.result[1].end_time)

\* the fields of a slot that booking does not write
Fixed(s) == <<s.start_time, s.end_time, s.description, s.people_involved>>

\* C16: the keys and every slot's start_time, end_time, description and
\* people_involved never change; a successful book_slot changes only the
\* slot it resolves to; the three read operations change nothing.
C16_Frame ==
    [][/\ Len(slots') = Len(slots)
       /\ \A i \in Entries :
            /\ slots'[i].key = slots[i].key
            /\ Fixed(slots'[i].slot) = Fixed(slots[i].slot)
       /\ ret'.op \in {"round_to_nearest_slot", "get_slot_at",
                       "get_slots_for_day"} => slots' = slots
       /\ ret'.op = "book_slot" =>
            \A i \in Entries :
              slots[i].key # KeyOf(ret'.t) => slots'[i] = slots[i]]_vars

\* a booking succeeded in a calendar with other slots still available
C16_Witness ==
    /\ ret.op = "book_slot"
    /\ ret.result
    /\ Len(slots) >= 3
    /\ \E i \in Entries :
         slots[i].key # KeyOf(ret.t) /\ slots[i].slot.status = "available"

\* construction classified the slot as outside the working hours
PreBlocked(s) ==
    /\ WindowGiven
    /\ ~is_during_workday(s, ctor.work_start[1], ctor.work_end[1])

\* C17: a slot with a title is busy and was booked by a successful
\* book_slot; a slot pre-blocked at construction is never booked and keeps
\* title None.
C17_TitleOnlyByBooking ==
    \A i \in Entries :
      LET s == slots[i].slot
          k == slots[i].key
      IN  /\ s.title # None => s.status = "busy" /\ wins[k] >= 1
          /\ PreBlocked(s) =>
               s.status = "busy" /\ wins[k] = 0 /\ s.title = None

\* a booking failed on a pre-blocked slot while another slot holds a title
C17_Witness ==
    /\ ret.op = "book_slot"
    /\ ~ret.result
    /\ \E i \in Entries :
         slots[i].key = KeyOf(ret.t) /\ PreBlocked(slots[i].slot)
    /\ \E j \in Entries : slots[j].slot.title # None

\* C18: construction runs to completion for every start_date, end_date and
\* integer increment: the loop eventually finds current_time >= end_date.
C18_ConstructionCompletes == <>(build.pc = "done")

\* C15: with each book_slot one atomic step, at most one call per slot
\* returns True; with the check and the writes as separate steps and no
\* lock, whatever the interleaving, a slot some call returned True for is
\* busy and holds the title of the caller that wrote its title last (the
\* state with two True returns is C15_Witness).
C15_RaceOutcome ==
    /\ callers.mode = "atomic" => \A k \in DOMAIN wins : wins[k] <= 1
    /\ callers.mode = "split" =>
         \A k \in DOMAIN wins :
           callers.writer[k] # 0 =>
             /\ DictGet(slots, k)[1].status = "busy"
             /\ DictGet(slots, k)[1].title
                  = callers.st[callers.writer[k]].title

\* both callers returned True for one slot, with different titles; the slot
\* holds the title written last
C15_Witness ==
    /\ callers.mode = "split"
    /\ \A c \in Callers : callers.st[c].result = Some(TRUE)
    /\ callers.st[1].key = callers.st[2].key
    /\ callers.st[1].title # callers.st[2].title
    /\ wins[callers.st[1].key[1]] = 2
    /\ DictGet(slots, callers.st[1].key[1])[1].title
         = callers.st[callers.writer[callers.st[1].key[1]]].title

====
